---- MODULE Spec2Model ----
(***************************************************************************)
(* A model of three classes of the Theia IDE shell:                        *)
(*   - FileNavigatorModel (packages/navigator/src/browser/navigator-model) *)
(*   - DialogsMainImpl    (packages/plugin-ext/src/main/browser/           *)
(*                         dialogs-main)                                   *)
(*   - QuickOpenHandlerFrontendContribution                                *)
(* Every async method is a small state machine whose steps are the code    *)
(* between two awaits.  The collaborators that are not part of these files *)
(* (the tree framework, the workspace service, the filesystem) are         *)
(* modelled from their documented contract.                                *)
(***************************************************************************)
EXTENDS Integers, Sequences, FiniteSets, Bags, TLC

VARIABLES
    wsRoots,    \* the workspace service's current root list (seq of URIs)
    root,       \* FileNavigatorModel.root: undefined or the WorkspaceNode id
    nodes,      \* the tree's node index: node id -> node
    calls,      \* the updateRoot invocations in flight (a bag)
    rev,        \* the revealFile invocation: call stack and bookkeeping
    col,        \* the last collectAffectedNodes invocation
    mv,         \* the last move invocation
    dlg,        \* the $showOpenDialog invocation
    closest,    \* the last getNodeClosestToRootByUri invocation
    iter,       \* the search filter and the last iterator created
    qo          \* QuickOpenHandlerFrontendContribution.onStart

vars == <<wsRoots, root, nodes, calls, rev, col, mv, dlg, closest, iter, qo>>

(***************************************************************************)
(* Bounds                                                                  *)
(***************************************************************************)
\* How many updateRoot invocations may be suspended at an await at once.
MaxCalls == 2

\* How many workspace roots hold a node for one URI in a lookup.
MaxCandidates == 3

\* How many nodes the navigator search may have filtered.
MaxFiltered == 3

\* How many quick-open contributions the provider may hold.
MaxContribs == 3

(***************************************************************************)
(* URIs and paths                                                          *)
(***************************************************************************)
\* JavaScript's undefined, where a string (a node id) is expected.
undefined == "undefined"

\* JavaScript's undefined, where a tree node is expected.
undefinedNode == [id |-> undefined, kind |-> "undefined"]

Uri(scheme, path) == [scheme |-> scheme, path |-> path]

FileUri(path) == Uri("file", path)

RECURSIVE PathString(_)
\* Path.toString(): "/" for the filesystem root, else "/seg/seg...".
PathString(p) ==
    IF p = <<>> THEN "/"
    ELSE IF Len(p) = 1 THEN "/" \o p[1]
    ELSE PathString(SubSeq(p, 1, Len(p) - 1)) \o "/" \o p[Len(p)]

\* URI.toString(): scheme://path
toString(u) == u.scheme \o "://" \o PathString(u.path)

\* Path.isRoot
isRoot(p) == p = <<>>

\* URI.parent: the parent of the filesystem root is the root itself.
parent(u) ==
    IF isRoot(u.path) THEN u
    ELSE Uri(u.scheme, SubSeq(u.path, 1, Len(u.path) - 1))

(***************************************************************************)
(* The filesystem the explorer shows (fixed during a run)                  *)
(***************************************************************************)
PathA == <<"a">>
PathAB == <<"a", "b">>
PathABD == <<"a", "b", "d">>
PathABF == <<"a", "b", "f">>
PathAG == <<"a", "g">>
PathC == <<"c">>
PathCH == <<"c", "h">>

DirPaths == {<<>>, PathA, PathAB, PathABD, PathC}

FilePaths == {PathABF, PathAG, PathCH}

\* The listing of a directory: directories first, then files, by name.
DirListing(p) ==
    IF p = <<>> THEN <<PathA, PathC>>
    ELSE IF p = PathA THEN <<PathAB, PathAG>>
    ELSE IF p = PathAB THEN <<PathABD, PathABF>>
    ELSE IF p = PathC THEN <<PathCH>>
    ELSE <<>>

UriA == FileUri(PathA)
UriAB == FileUri(PathAB)
UriC == FileUri(PathC)

\* The workspace configurations considered: no root, one root, two disjoint
\* roots, two nested roots (both orders), three roots.
RootLists ==
    { <<>>, <<UriA>>, <<UriAB>>, <<UriA, UriC>>, <<UriC, UriA>>,
      <<UriA, UriAB>>, <<UriAB, UriA>>, <<UriA, UriAB, UriC>> }

(***************************************************************************)
(* Tree nodes                                                              *)
(***************************************************************************)
WorkspaceNodeId == "WorkspaceNodeId"

\* WorkspaceRootNode.createId(rootUri, nodeUri): the id of the node of
\* nodeUri in the subtree of the workspace root rootUri.
createId(rootUri, nodeUri) == rootUri \o ":" \o nodeUri

NodeIdOf(rootUri, uri) == createId(toString(rootUri), toString(uri))

\* WorkspaceNode.createRoot: the synthetic root, no children yet.
WorkspaceNodeCreateRoot ==
    [id |-> WorkspaceNodeId, uri |-> Uri("", <<>>), kind |-> "WorkspaceNode",
     parent |-> undefined, expanded |-> FALSE, children |-> <<>>,
     wsroot |-> Uri("", <<>>)]

\* FileTree.toNode: a node for a filesystem entry, collapsed and without
\* children; wsroot is the workspace root whose subtree it belongs to.
toNode(rootUri, uri, parentId) ==
    [id |-> NodeIdOf(rootUri, uri), uri |-> uri,
     kind |-> IF uri.path \in DirPaths THEN "DirNode" ELSE "FileNode",
     parent |-> parentId, expanded |-> FALSE, children |-> <<>>,
     wsroot |-> rootUri]

\* FileNavigatorTree.createWorkspaceRoot(rootFolder, workspaceNode)
createWorkspaceRoot(rootUri, workspaceNode) ==
    toNode(rootUri, rootUri, workspaceNode.id)

Mounted == DOMAIN nodes

\* Tree.getNode(id)
getNode(id) == IF id \in Mounted THEN nodes[id] ELSE undefinedNode

DirNodeIs(n) == n.kind = "DirNode"

FileNodeIs(n) == n.kind = "FileNode"

\* ExpandableTreeNode.is: directories are the expandable nodes.
ExpandableTreeNodeIs(n) == n.kind = "DirNode"

\* WorkspaceRootNode.is: a directory node whose parent is the WorkspaceNode.
WorkspaceRootNodeIs(n) == DirNodeIs(n) /\ n.parent = WorkspaceNodeId

EmptyStore == [id \in {} |-> undefinedNode]

SeqRange(s) == {s[i] : i \in 1..Len(s)}

\* The tree index after `this.root = value`: the index is rebuilt from the
\* new root, so it holds the WorkspaceNode and its children and nothing else.
StoreOf(value) ==
    IF value = undefinedNode THEN EmptyStore
    ELSE LET kids == value.children
             ids == {WorkspaceNodeId} \cup {kids[i].id : i \in 1..Len(kids)}
         IN [id \in ids |->
                IF id = WorkspaceNodeId
                THEN [value EXCEPT !.children = [i \in 1..Len(kids) |-> kids[i].id]]
                ELSE CHOOSE k \in SeqRange(kids) : k.id = id]

(***************************************************************************)
(* updateRoot / createRoot                                                 *)
(***************************************************************************)
\* An updateRoot invocation suspended at an await: where it is suspended
\* (pc), the value of the roots promise it awaits or has read (roots) and
\* the local `children` array of createRoot.
CallAt(pc, roots, children) == [pc |-> pc, roots |-> roots, children |-> children]

InFlight == BagToSet(calls)

NoCallInFlight == calls = EmptyBag

\* The invocation `call` moves on to `next`.
Resume(call, next) == (calls (-) SetToBag({call})) (+) SetToBag({next})

\* createRoot testing `roots.length > 1`: a single root gives no tree root.
createRootValueSingleRootLost(call) ==
    IF Len(call.roots) > 1
    THEN [WorkspaceNodeCreateRoot EXCEPT !.children = call.children]
    ELSE undefinedNode

\* createRoot's return value once the loop is over (or was never entered).
createRootValue(call) ==
    IF Len(call.roots) > 0
    THEN [WorkspaceNodeCreateRoot EXCEPT !.children = call.children]
    ELSE undefinedNode

\* updateRoot() is called; createRoot runs to `await this.workspaceService.roots`,
\* whose promise holds the root list `rs` of the moment.
updateRootCall(rs) ==
    /\ BagCardinality(calls) < MaxCalls
    /\ calls' = calls (+) SetToBag({CallAt("roots", rs, <<>>)})

\* The workspace service changes its roots and fires onWorkspaceChanged, whose
\* listener calls updateRoot.
WorkspaceChanged ==
    \E rs \in RootLists :
        /\ rs # wsRoots
        /\ wsRoots' = rs
        /\ updateRootCall(rs)
        /\ UNCHANGED <<qo, iter, closest, root, nodes, rev, col, mv, dlg>>

\* `await this.workspaceService.roots` resumes: roots.length is tested.
createRootRoots ==
    \E call \in InFlight :
        /\ call.pc = "roots"
        /\ calls' = Resume(call, [call EXCEPT !.pc =
                        IF Len(call.roots) > 0 THEN "loop" ELSE "assign"])
        /\ UNCHANGED <<qo, iter, closest, wsRoots, root, nodes, rev, col, mv, dlg>>

\* One turn of the loop: `children.push(await createWorkspaceRoot(root, workspaceNode))`.
createRootChild ==
    \E call \in InFlight :
        /\ call.pc = "loop"
        /\ LET i == Len(call.children) + 1
               kids == Append(call.children,
                          createWorkspaceRoot(call.roots[i], WorkspaceNodeCreateRoot))
           IN calls' = Resume(call, [call EXCEPT !.children = kids,
                                        !.pc = IF Len(kids) = Len(call.roots)
                                               THEN "assign" ELSE "loop"])
        /\ UNCHANGED <<qo, iter, closest, wsRoots, root, nodes, rev, col, mv, dlg>>

\* `this.root = await this.createRoot()` resumes: the root is replaced.
updateRootAssign ==
    \E call \in InFlight :
        /\ call.pc = "assign"
        /\ root' = createRootValue(call).id
        /\ nodes' = StoreOf(createRootValue(call))
        /\ calls' = calls (-) SetToBag({call})
        /\ UNCHANGED <<qo, iter, closest, wsRoots, rev, col, mv, dlg>>

(***************************************************************************)
(* Expansion (the tree framework's expansion service)                      *)
(***************************************************************************)
\* The index after expandNode(id): the node is flagged expanded and its
\* directory listing is mounted below it; a child that is mounted already
\* is kept as it is, with its own subtree and flags.
ExpandStore(store, id) ==
    LET n == store[id]
        listing == DirListing(n.uri.path)
        kidIds == [i \in 1..Len(listing) |-> NodeIdOf(n.wsroot, FileUri(listing[i]))]
    IN [k \in DOMAIN store \cup SeqRange(kidIds) |->
            IF k = id THEN [n EXCEPT !.expanded = TRUE, !.children = kidIds]
            ELSE IF k \in DOMAIN store THEN store[k]
            ELSE LET i == CHOOSE j \in 1..Len(listing) : kidIds[j] = k
                 IN toNode(n.wsroot, FileUri(listing[i]), id)]

\* The index after collapseNode(id): only the flag changes, the children
\* stay mounted.
CollapseStore(store, id) == [store EXCEPT ![id].expanded = FALSE]

(***************************************************************************)
(* Node lookup by URI                                                      *)
(***************************************************************************)
\* getNodesByUri(nodeUri): per workspace root, in provider order, the node
\* whose id is createId(root.uri, nodeUri), when the tree has one.
getNodesByUri(nodeUri) ==
    LET ids == [i \in 1..Len(wsRoots) |-> createId(toString(wsRoots[i]), nodeUri)]
    IN SelectSeq(ids, LAMBDA id : getNode(id) # undefinedNode)

RECURSIVE reduceLaterOnTies(_, _)
\* The reduce with `>` for `>=`: of two ids of equal length the later wins.
reduceLaterOnTies(acc, rest) ==
    IF rest = <<>> THEN acc
    ELSE reduceLaterOnTies(IF Len(acc) > Len(Head(rest)) THEN acc ELSE Head(rest),
                           Tail(rest))

RECURSIVE reduceLongestId(_, _)
\* nodes.reduce((node1, node2) => node1.id.length >= node2.id.length ? node1 : node2)
\* with `acc` the accumulator and `rest` the elements still to visit.
reduceLongestId(acc, rest) ==
    IF rest = <<>> THEN acc
    ELSE reduceLongestId(IF Len(acc) >= Len(Head(rest)) THEN acc ELSE Head(rest),
                         Tail(rest))

\* Lines 129-133: the choice among the nodes found, undefined if none.
closestOf(found) ==
    IF Len(found) > 0 THEN reduceLongestId(Head(found), Tail(found))
    ELSE undefined

\* getNodeClosestToRootByUri(uri): the id of the chosen node, or undefined.
getNodeClosestToRootByUri(uri) == closestOf(getNodesByUri(uri))

(***************************************************************************)
(* revealFile                                                              *)
(***************************************************************************)
NoUri == Uri("", <<>>)

\* No lookup has been made: `uri` is the URI looked up, `found` the ids
\* getNodesByUri gave, `result` the id returned.
IdleClosest == [state |-> "idle", uri |-> NoUri, found |-> <<>>, result |-> undefined]

IdleRev ==
    [state |-> "idle", target |-> NoUri, stack |-> <<>>, ret |-> undefined,
     log |-> <<>>, rets |-> <<>>, pre |-> EmptyStore, lookups |-> 0]

IdleCol == [state |-> "idle", change |-> [uri |-> NoUri, type |-> ""],
            accepted |-> <<>>]

IdleMv == [state |-> "idle", source |-> undefined, target |-> undefined,
           delegated |-> 0]

\* One activation of revealFile: its argument, its local `node` (a node id)
\* and the await it is suspended at.
Frame(uri) == [uri |-> uri, node |-> undefined, pc |-> "entry"]

Top == rev.stack[Len(rev.stack)]

Running(pc) == rev.state = "running" /\ Top.pc = pc

SetTop(frame) == [rev.stack EXCEPT ![Len(rev.stack)] = frame]

\* The top activation returns `value` to its caller (or to the outside).
Return(r, value) ==
    LET rest == SubSeq(r.stack, 1, Len(r.stack) - 1)
    IN [r EXCEPT !.stack = rest,
                 !.ret = value,
                 !.rets = Append(@, value),
                 !.state = IF rest = <<>> THEN "done" ELSE "running"]

\* The filesystem URIs revealFile and the change events are tried on.
TargetUris ==
    {FileUri(p) : p \in DirPaths \cup FilePaths}
        \cup {FileUri(<<"a", "z">>), FileUri(<<"z">>), Uri("git", PathAG)}

\* No operation of the navigator model is running or has its result pending.
Quiet == rev = IdleRev /\ col = IdleCol /\ mv = IdleMv /\ closest = IdleClosest

\* The caller of the operation that has just completed takes its result.
operationReturns ==
    /\ \/ rev.state = "done" \/ col.state = "done" \/ mv.state = "done"
       \/ closest.state = "done"
    /\ rev' = IdleRev
    /\ col' = IdleCol
    /\ mv' = IdleMv
    /\ closest' = IdleClosest
    /\ UNCHANGED <<qo, iter, wsRoots, root, nodes, calls, dlg>>

\* revealFile(targetFileUri) is called from outside.
revealFileCall ==
    \E uri \in TargetUris :
        /\ Quiet
        /\ rev' = [IdleRev EXCEPT !.state = "running", !.target = uri,
                                  !.stack = <<Frame(uri)>>, !.pre = nodes]
        /\ UNCHANGED <<qo, iter, closest, wsRoots, root, nodes, calls, col, mv, dlg>>

\* Lines 87-92 without the scheme test.
revealFileEntryAnyScheme ==
    /\ Running("entry")
    /\ rev' = [rev EXCEPT !.stack = SetTop([Top EXCEPT !.pc = "lookup"])]
    /\ UNCHANGED <<qo, iter, closest, wsRoots, root, nodes, calls, col, mv, dlg>>

\* Lines 87-92: the scheme test, then the first lookup is awaited.
revealFileEntry ==
    /\ Running("entry")
    /\ rev' = IF Top.uri.scheme # "file"
              THEN Return(rev, undefined)
              ELSE [rev EXCEPT !.stack = SetTop([Top EXCEPT !.pc = "lookup"])]
    /\ UNCHANGED <<qo, iter, closest, wsRoots, root, nodes, calls, col, mv, dlg>>

\* Lines 119-122 without the `!node.expanded` test: an expandable node is
\* expanded again on every reveal.
ExpandOrReturnAlways(r, id) ==
    IF ExpandableTreeNodeIs(getNode(id))
    THEN [r EXCEPT !.stack = SetTop([Top EXCEPT !.node = id, !.pc = "expand"])]
    ELSE Return(r, id)

\* Lines 119-122, once the parent URI has been revealed and the node of this
\* URI is `id`: expand it if it is expandable and collapsed, and return it.
ExpandOrReturn(r, id) ==
    IF ExpandableTreeNodeIs(getNode(id)) /\ ~getNode(id).expanded
    THEN [r EXCEPT !.stack = SetTop([Top EXCEPT !.node = id, !.pc = "expand"])]
    ELSE Return(r, id)

\* Lines 92-114 with the fail stop condition one level early: it tests
\* `targetFileUri.parent.path.isRoot`.
revealFileLookupStopsEarly ==
    /\ Running("lookup")
    /\ LET id == getNodeClosestToRootByUri(toString(Top.uri))
           node == getNode(id)
           r == [rev EXCEPT !.lookups = @ + 1]
       IN rev' =
            IF WorkspaceRootNodeIs(node)
            THEN IF ExpandableTreeNodeIs(node)
                 THEN IF ~node.expanded
                      THEN [r EXCEPT !.stack =
                                SetTop([Top EXCEPT !.node = id, !.pc = "expand"])]
                      ELSE Return(r, id)
                 ELSE Return(r, undefined)
            ELSE IF isRoot(parent(Top.uri).path)
            THEN Return(r, undefined)
            ELSE [r EXCEPT !.stack =
                    Append(SetTop([Top EXCEPT !.node = id, !.pc = "parent"]),
                           Frame(parent(Top.uri)))]
    /\ UNCHANGED <<qo, iter, closest, wsRoots, root, nodes, calls, col, mv, dlg>>

\* Lines 92-114: the lookup resumes; the success stop condition, the fail
\* stop condition, or the recursive call on the parent URI.
revealFileLookup ==
    /\ Running("lookup")
    /\ LET id == getNodeClosestToRootByUri(toString(Top.uri))
           node == getNode(id)
           r == [rev EXCEPT !.lookups = @ + 1]
       IN rev' =
            IF WorkspaceRootNodeIs(node)
            THEN IF ExpandableTreeNodeIs(node)
                 THEN IF ~node.expanded
                      THEN [r EXCEPT !.stack =
                                SetTop([Top EXCEPT !.node = id, !.pc = "expand"])]
                      ELSE Return(r, id)
                 ELSE Return(r, undefined)
            ELSE IF isRoot(Top.uri.path)
            THEN Return(r, undefined)
            ELSE [r EXCEPT !.stack =
                    Append(SetTop([Top EXCEPT !.node = id, !.pc = "parent"]),
                           Frame(parent(Top.uri)))]
    /\ UNCHANGED <<qo, iter, closest, wsRoots, root, nodes, calls, col, mv, dlg>>

\* Lines 114-124 with the whole method retried, in place of the second
\* lookup of line 117, once the parent has been revealed.
revealFileParentRetries ==
    /\ Running("parent")
    /\ rev' = IF rev.ret # undefined
              THEN IF Top.node = undefined
                   THEN [rev EXCEPT !.stack = SetTop([Top EXCEPT !.pc = "lookup"])]
                   ELSE ExpandOrReturn(rev, Top.node)
              ELSE Return(rev, undefined)
    /\ UNCHANGED <<qo, iter, closest, wsRoots, root, nodes, calls, col, mv, dlg>>

\* Lines 114-124: revealFile(parent) has returned rev.ret.
revealFileParent ==
    /\ Running("parent")
    /\ rev' = IF rev.ret # undefined
              THEN IF Top.node = undefined
                   THEN [rev EXCEPT !.stack = SetTop([Top EXCEPT !.pc = "relookup"])]
                   ELSE ExpandOrReturn(rev, Top.node)
              ELSE Return(rev, undefined)
    /\ UNCHANGED <<qo, iter, closest, wsRoots, root, nodes, calls, col, mv, dlg>>

\* Line 117: the second lookup resumes.
revealFileRelookup ==
    /\ Running("relookup")
    /\ rev' = ExpandOrReturn([rev EXCEPT !.lookups = @ + 1],
                             getNodeClosestToRootByUri(toString(Top.uri)))
    /\ UNCHANGED <<qo, iter, closest, wsRoots, root, nodes, calls, col, mv, dlg>>

\* Lines 99 and 120: `await this.expandNode(node)`, then `return node`.
revealFileExpand ==
    /\ Running("expand")
    /\ nodes' = ExpandStore(nodes, Top.node)
    /\ rev' = Return([rev EXCEPT !.log = Append(@, Top.node)], Top.node)
    /\ UNCHANGED <<qo, iter, closest, wsRoots, root, calls, col, mv, dlg>>

(***************************************************************************)
(* The user expands and collapses directories                              *)
(***************************************************************************)
expandNode ==
    \E id \in Mounted :
        /\ Quiet
        /\ DirNodeIs(nodes[id]) /\ ~nodes[id].expanded
        /\ nodes' = ExpandStore(nodes, id)
        /\ UNCHANGED <<qo, iter, closest, wsRoots, root, calls, rev, col, mv, dlg>>

collapseNode ==
    \E id \in Mounted :
        /\ Quiet
        /\ DirNodeIs(nodes[id]) /\ nodes[id].expanded
        /\ nodes' = CollapseStore(nodes, id)
        /\ UNCHANGED <<qo, iter, closest, wsRoots, root, calls, rev, col, mv, dlg>>

(***************************************************************************)
(* collectAffectedNodes                                                    *)
(***************************************************************************)
ChangeTypes == {"UPDATED", "ADDED", "DELETED"}

FileChange(uri, type) == [uri |-> uri, type |-> type]

\* isFileContentChanged(change), with tryGetRoots() the current root list.
isFileContentChanged(change) ==
    IF Len(wsRoots) = 0 THEN FALSE
    ELSE LET nodeId == createId(toString(wsRoots[1]), toString(change.uri))
         IN change.type = "UPDATED" /\ FileNodeIs(getNode(nodeId))

\* collectAffectedNodes without the `parentNode.expanded` test.
AcceptedNodesCollapsedToo(change) ==
    IF isFileContentChanged(change) THEN <<>>
    ELSE SelectSeq(getNodesByUri(toString(parent(change.uri))),
                   LAMBDA id : DirNodeIs(getNode(id)))

\* The nodes collectAffectedNodes(change, accept) hands to accept, in order.
AcceptedNodes(change) ==
    IF isFileContentChanged(change) THEN <<>>
    ELSE SelectSeq(getNodesByUri(toString(parent(change.uri))),
                   LAMBDA id : DirNodeIs(getNode(id)) /\ getNode(id).expanded)

collectAffectedNodes ==
    \E uri \in TargetUris, type \in ChangeTypes :
        /\ Quiet
        /\ col' = [state |-> "done", change |-> FileChange(uri, type),
                   accepted |-> AcceptedNodes(FileChange(uri, type))]
        /\ UNCHANGED <<qo, iter, closest, wsRoots, root, nodes, calls, rev, mv, dlg>>

(***************************************************************************)
(* move                                                                    *)
(***************************************************************************)
\* move without its guard: every move is handed to super.move.
moveDelegationsUnguarded(source) == IF source.parent # undefined THEN 1 ELSE 1

\* How often move(source, target) invokes super.move: not at all for a
\* workspace root node that has a parent, once otherwise.
moveDelegations(source) ==
    IF source.parent # undefined /\ WorkspaceRootNodeIs(source) THEN 0 ELSE 1

\* move(source, target) on two nodes of the tree.  What the generic move then
\* does happens in the filesystem, outside the tree index.
move ==
    \E source \in Mounted, target \in Mounted :
        /\ Quiet
        /\ mv' = [state |-> "done", source |-> source, target |-> target,
                  delegated |-> moveDelegations(nodes[source])]
        /\ UNCHANGED <<qo, iter, closest, wsRoots, root, nodes, calls, rev, col, dlg>>

(***************************************************************************)
(* getNodeClosestToRootByUri, called on its own                            *)
(***************************************************************************)
\* The workspace roots of the lookups whose candidate list is given.
CandidateRoots ==
    {FileUri(p) : p \in {PathA, PathC, PathAB, PathCH}}

\* The ids a lookup of one URI may meet, one per workspace root; the ids of
\* roots whose URIs have the same length have the same length.
CandidateIds == {createId(toString(r), toString(FileUri(PathAG))) : r \in CandidateRoots}

RECURSIVE SeqsUpTo(_, _)
\* The sequences of at most n elements of S.
SeqsUpTo(S, n) ==
    IF n = 0 THEN {<<>>}
    ELSE LET shorter == SeqsUpTo(S, n - 1)
         IN shorter \cup {Append(q, x) : q \in {t \in shorter : Len(t) = n - 1},
                                         x \in S}

\* The lists of nodes found: distinct nodes, at most MaxCandidates of them.
CandidateLists ==
    {found \in SeqsUpTo(CandidateIds, MaxCandidates) :
        \A i, j \in 1..Len(found) : found[i] = found[j] => i = j}

\* Lines 127-134 on the tree as it is: getNodeClosestToRootByUri(uri).
getNodeClosestToRootByUriCall ==
    \E uri \in TargetUris :
        /\ Quiet
        /\ closest' = [state |-> "done", uri |-> uri,
                       found |-> getNodesByUri(toString(uri)),
                       result |-> getNodeClosestToRootByUri(toString(uri))]
        /\ UNCHANGED <<qo, iter, wsRoots, root, nodes, calls, rev, col, mv, dlg>>

\* Lines 129-133 on a list of nodes found, given by their ids.
closestOfCall ==
    \E found \in CandidateLists :
        /\ Quiet
        /\ closest' = [state |-> "done", uri |-> NoUri, found |-> found,
                       result |-> closestOf(found)]
        /\ UNCHANGED <<qo, iter, wsRoots, root, nodes, calls, rev, col, mv, dlg>>

(***************************************************************************)
(* createIterator and createBackwardIterator                               *)
(***************************************************************************)
\* The tree nodes the iterators are created on, given by their ids: the
\* files and directories shown in the navigator.
IterNodes == Mounted \ {WorkspaceNodeId}

\* The values navigatorSearch.filteredNodes may have: distinct nodes.
FilteredLists ==
    {f \in SeqsUpTo(IterNodes, MaxFiltered) :
        \A i, j \in 1..Len(f) : f[i] = f[j] => i = j}

\* Array.prototype.indexOf, 1-based; 0 for -1.
indexOf(array, x) ==
    IF \E i \in 1..Len(array) : array[i] = x
    THEN CHOOSE i \in 1..Len(array) :
            array[i] = x /\ \A j \in 1..(i - 1) : array[j] # x
    ELSE 0

\* Array.prototype.reverse on a copy of the array.
reverse(array) == [i \in 1..Len(array) |-> array[Len(array) + 1 - i]]

\* `return undefined`
NoIterator == [kind |-> "undefined", elements |-> <<>>, start |-> undefined]

\* super.createIterator(node) and super.createBackwardIterator(node): the
\* tree's own iterator from node, over all the nodes of the tree.
superIterator(kind, node) == [kind |-> kind, elements |-> <<>>, start |-> node]

\* Iterators.cycle(elements, start): yields the elements from start on,
\* wrapping around after the last, without end.
cycle(elements, start) == [kind |-> "cycle", elements |-> elements, start |-> start]

\* The n-th node a cyclic iterator yields, n = 1, 2, ...
Yield(it, n) ==
    it.elements[((indexOf(it.elements, it.start) - 1 + n - 1) % Len(it.elements)) + 1]

\* Lines 136-148 with the filtered nodes iterated in their own order.
createBackwardIteratorNotReversed(node, filteredNodes) ==
    [filteredNodes |-> filteredNodes,
     iterator |->
        IF node = undefined THEN NoIterator
        ELSE IF Len(filteredNodes) = 0 THEN superIterator("treeBackward", node)
        ELSE IF indexOf(filteredNodes, node) = 0 THEN NoIterator
        ELSE cycle(filteredNodes, node)]

\* Lines 136-148: createBackwardIterator(node), with the filtered nodes as
\* the call leaves them.
createBackwardIterator(node, filteredNodes) ==
    [filteredNodes |-> filteredNodes,
     iterator |->
        IF node = undefined THEN NoIterator
        ELSE IF Len(filteredNodes) = 0 THEN superIterator("treeBackward", node)
        ELSE IF indexOf(filteredNodes, node) = 0 THEN NoIterator
        ELSE cycle(reverse(filteredNodes), node)]

\* Lines 150-162: createIterator(node), with the filtered nodes as the call
\* leaves them.
createIterator(node, filteredNodes) ==
    [filteredNodes |-> filteredNodes,
     iterator |->
        IF node = undefined THEN NoIterator
        ELSE IF Len(filteredNodes) = 0 THEN superIterator("tree", node)
        ELSE IF indexOf(filteredNodes, node) = 0 THEN NoIterator
        ELSE cycle(filteredNodes, node)]

\* No iterator asked for yet, no search filter.
IdleIter ==
    [state |-> "idle", filteredNodes |-> <<>>, before |-> <<>>, anchor |-> undefined,
     backward |-> FALSE, iterator |-> NoIterator]

\* The navigator search has a new result: navigatorSearch.filteredNodes.
filteredNodesChanged ==
    \E f \in FilteredLists :
        /\ f # iter.filteredNodes
        /\ iter' = [IdleIter EXCEPT !.filteredNodes = f]
        /\ UNCHANGED <<qo, wsRoots, root, nodes, calls, rev, col, mv, dlg, closest>>

\* The tree model asks for a forward iterator from node.
createIteratorCall ==
    \E node \in IterNodes \cup {undefined} :
        LET r == createIterator(node, iter.filteredNodes)
        IN /\ iter' = [state |-> "done", filteredNodes |-> r.filteredNodes,
                       before |-> iter.filteredNodes, anchor |-> node,
                       backward |-> FALSE, iterator |-> r.iterator]
           /\ UNCHANGED <<qo, wsRoots, root, nodes, calls, rev, col, mv, dlg, closest>>

\* The tree model asks for a backward iterator from node.
createBackwardIteratorCall ==
    \E node \in IterNodes \cup {undefined} :
        LET r == createBackwardIterator(node, iter.filteredNodes)
        IN /\ iter' = [state |-> "done", filteredNodes |-> r.filteredNodes,
                       before |-> iter.filteredNodes, anchor |-> node,
                       backward |-> TRUE, iterator |-> r.iterator]
           /\ UNCHANGED <<qo, wsRoots, root, nodes, calls, rev, col, mv, dlg, closest>>

(***************************************************************************)
(* DialogsMainImpl.$showOpenDialog                                         *)
(***************************************************************************)
\* A FileStat is identified by its URI; NoStat is `undefined`.
NoStat == NoUri

HomeStat == FileUri(<<"home">>)

\* An optional boolean of the options: true, false or not given.
Flags == {"true", "false", "undefined"}

\* FileSystem.getFileStat(uri): the stat of an existing entry, else undefined.
getFileStat(uri) ==
    IF uri.scheme = "file" /\ uri.path \in DirPaths \cup FilePaths THEN uri ELSE NoStat

\* Lines 81-97 with the `canSelectMany` test moved out of the else branch:
\* "Open" takes the suffix too.
dialogTitleSuffixEverywhere(options) ==
    LET canSelectFiles ==
            IF options.canSelectFiles \in {"true", "false"}
            THEN options.canSelectFiles = "true" ELSE TRUE
        canSelectFolders ==
            IF options.canSelectFolders \in {"true", "false"}
            THEN options.canSelectFolders = "true" ELSE TRUE
    IN (IF canSelectFiles /\ canSelectFolders THEN "Open"
        ELSE IF canSelectFiles THEN "Open File" ELSE "Open Folder")
            \o (IF options.canSelectMany = "true" THEN "(s)" ELSE "")

\* Lines 81-97: the dialog title.
dialogTitle(options) ==
    LET canSelectFiles ==
            IF options.canSelectFiles \in {"true", "false"}
            THEN options.canSelectFiles = "true" ELSE TRUE
        canSelectFolders ==
            IF options.canSelectFolders \in {"true", "false"}
            THEN options.canSelectFolders = "true" ELSE TRUE
    IN IF canSelectFiles /\ canSelectFolders THEN "Open"
       ELSE (IF canSelectFiles THEN "Open File" ELSE "Open Folder")
                \o (IF options.canSelectMany = "true" THEN "(s)" ELSE "")

NoResult == [defined |-> FALSE, paths |-> <<>>]

IdleDlg ==
    [pc |-> "idle",
     options |-> [defaultUri |-> NoUri, canSelectFiles |-> "undefined",
                  canSelectFolders |-> "undefined", canSelectMany |-> "undefined"],
     rootStat |-> NoStat, consulted |-> <<>>, title |-> "", navigatedTo |-> NoStat,
     result |-> NoResult, error |-> "", logged |-> <<>>]

\* What the user may pick in the dialog: nothing (cancel), one entry, several.
Selections == {<<>>, <<UriA>>, <<FileUri(PathAG), FileUri(PathCH)>>}

\* Lines 59, 64, 69, 74: where the method goes once rootStat has been set by
\* the source just consulted.
AfterSource(d, next) ==
    IF d.rootStat = NoStat THEN [d EXCEPT !.pc = next] ELSE [d EXCEPT !.pc = "icon"]

\* $showOpenDialog(options) is called by the plugin side; it runs to its
\* first await.
showOpenDialogCall ==
    \E defaultUri \in {NoUri, UriA, FileUri(<<"z">>)},
       files \in Flags, folders \in Flags, many \in Flags :
        /\ dlg.pc = "idle"
        /\ dlg' = [IdleDlg EXCEPT
                     !.options = [defaultUri |-> defaultUri, canSelectFiles |-> files,
                                  canSelectFolders |-> folders, canSelectMany |-> many],
                     !.pc = IF defaultUri # NoUri THEN "stat" ELSE "roots"]
        /\ UNCHANGED <<qo, iter, closest, wsRoots, root, nodes, calls, rev, col, mv>>

\* Lines 55-61 without the `if (!rootStat)` of line 59: the workspace roots
\* are consulted, and override the stat of defaultUri, in every case.
showOpenDialogStatOverridden ==
    /\ dlg.pc = "stat"
    /\ dlg' = [dlg EXCEPT !.rootStat = getFileStat(dlg.options.defaultUri),
                          !.consulted = Append(@, "defaultUri"),
                          !.pc = "roots"]
    /\ UNCHANGED <<qo, iter, closest, wsRoots, root, nodes, calls, rev, col, mv>>

\* Line 55: `rootStat = await this.fileSystem.getFileStat(options.defaultUri)`.
showOpenDialogStat ==
    /\ dlg.pc = "stat"
    /\ dlg' = AfterSource([dlg EXCEPT !.rootStat = getFileStat(dlg.options.defaultUri),
                                      !.consulted = Append(@, "defaultUri")], "roots")
    /\ UNCHANGED <<qo, iter, closest, wsRoots, root, nodes, calls, rev, col, mv>>

\* Line 60: `rootStat = (await this.workspaceService.roots)[0]`.
showOpenDialogRoots ==
    /\ dlg.pc = "roots"
    /\ dlg' = AfterSource([dlg EXCEPT !.rootStat = IF Len(wsRoots) > 0 THEN wsRoots[1]
                                                   ELSE NoStat,
                                      !.consulted = Append(@, "roots")], "home")
    /\ UNCHANGED <<qo, iter, closest, wsRoots, root, nodes, calls, rev, col, mv>>

\* Lines 65-71: `rootStat = await this.fileSystem.getCurrentUserHome()`, and
\* the throw when there is still no rootStat: it is outside the try block, so
\* the promise of $showOpenDialog is rejected.
showOpenDialogHome ==
    \E home \in {NoStat, HomeStat} :
        /\ dlg.pc = "home"
        /\ dlg' = AfterSource([dlg EXCEPT !.rootStat = home,
                                          !.consulted = Append(@, "home"),
                                          !.error = IF home = NoStat
                                                    THEN "Unable to find the rootStat"
                                                    ELSE ""], "rejected")
        /\ UNCHANGED <<qo, iter, closest, wsRoots, root, nodes, calls, rev, col, mv>>

\* Lines 74-112: `await this.labelProvider.getIcon(rootUri)` resumes; the
\* title is derived, the dialog is created and navigated to the root node,
\* and dialog.open() is awaited.
showOpenDialogOpen ==
    /\ dlg.pc = "icon"
    /\ dlg' = [dlg EXCEPT !.title = dialogTitle(dlg.options),
                          !.navigatedTo = dlg.rootStat,
                          !.pc = "open"]
    /\ UNCHANGED <<qo, iter, closest, wsRoots, root, nodes, calls, rev, col, mv>>

\* Lines 112-120: dialog.open() settles.  A selection is returned as path
\* strings; an error inside the try block is logged and undefined returned.
showOpenDialogClose ==
    \E selection \in Selections, failed \in BOOLEAN :
        /\ dlg.pc = "open"
        /\ dlg' = IF failed
                  THEN [dlg EXCEPT !.pc = "resolved", !.result = NoResult,
                                   !.logged = Append(@, "dialog failed")]
                  ELSE [dlg EXCEPT !.pc = "resolved",
                                   !.result = [defined |-> TRUE,
                                               paths |-> [i \in 1..Len(selection) |->
                                                    PathString(selection[i].path)]]]
        /\ UNCHANGED <<qo, iter, closest, wsRoots, root, nodes, calls, rev, col, mv>>

\* The remote caller has received the outcome.
showOpenDialogSettled ==
    /\ dlg.pc \in {"resolved", "rejected"}
    /\ dlg' = IdleDlg
    /\ UNCHANGED <<qo, iter, closest, wsRoots, root, nodes, calls, rev, col, mv>>

(***************************************************************************)
(* QuickOpenHandlerFrontendContribution.onStart                            *)
(***************************************************************************)
\* The injected QuickOpenHandlerRegistry.
quickOpenHandlerRegistry == "quickOpenHandlerRegistry"

ContribNames == {"c1", "c2", "c3", "c4"}

\* A QuickOpenContribution: `fails` tells whether its
\* registerQuickOpenHandlers throws.
Contribs == [name : ContribNames, fails : BOOLEAN]

\* What contributionProvider.getContributions() may return: distinct
\* contributions, in the provider's order.
ContributionLists ==
    {cs \in SeqsUpTo(Contribs, MaxContribs) :
        \A i, j \in 1..Len(cs) : cs[i].name = cs[j].name => i = j}

\* onStart has not been called.  `index` is the position forEach is at,
\* `invoked` the hooks called so far with the registry each was given,
\* `handlers` the contributions whose handlers are in the registry.
IdleQo ==
    [state |-> "idle", contributions |-> <<>>, index |-> 1, invoked |-> <<>>,
     handlers |-> <<>>]

\* Line 32: onStart() is called at application start and takes the
\* provider's contributions.
onStart ==
    \E cs \in ContributionLists :
        /\ qo.state = "idle"
        /\ qo' = [IdleQo EXCEPT !.state = "running", !.contributions = cs]
        /\ UNCHANGED <<wsRoots, root, nodes, calls, rev, col, mv, dlg, closest, iter>>

\* Lines 32-34 with each hook called in a try block: a failing hook is
\* skipped and forEach goes on.
registerQuickOpenHandlersGuarded ==
    /\ qo.state = "running"
    /\ qo.index <= Len(qo.contributions)
    /\ LET contrib == qo.contributions[qo.index]
       IN qo' = [qo EXCEPT
                   !.invoked = Append(@, [contrib |-> contrib.name,
                                          registry |-> quickOpenHandlerRegistry]),
                   !.handlers = IF contrib.fails THEN @ ELSE Append(@, contrib.name),
                   !.index = @ + 1]
    /\ UNCHANGED <<wsRoots, root, nodes, calls, rev, col, mv, dlg, closest, iter>>

\* Lines 32-34: forEach calls the hook of the next contribution with the
\* registry; an exception of the hook leaves forEach and onStart.
registerQuickOpenHandlers ==
    /\ qo.state = "running"
    /\ qo.index <= Len(qo.contributions)
    /\ LET contrib == qo.contributions[qo.index]
           called == [qo EXCEPT
                        !.invoked = Append(@, [contrib |-> contrib.name,
                                               registry |-> quickOpenHandlerRegistry])]
       IN qo' = IF contrib.fails
                THEN [called EXCEPT !.state = "thrown"]
                ELSE [called EXCEPT !.handlers = Append(@, contrib.name),
                                    !.index = @ + 1]
    /\ UNCHANGED <<wsRoots, root, nodes, calls, rev, col, mv, dlg, closest, iter>>

\* Line 35: forEach has visited every contribution; onStart returns.
onStartReturns ==
    /\ qo.state = "running"
    /\ qo.index > Len(qo.contributions)
    /\ qo' = [qo EXCEPT !.state = "returned"]
    /\ UNCHANGED <<wsRoots, root, nodes, calls, rev, col, mv, dlg, closest, iter>>

(***************************************************************************)
(* Initial states                                                          *)
(***************************************************************************)
\* After construction: no workspace opened yet, no tree root.
InitRoot ==
    /\ wsRoots = <<>>
    /\ root = undefined
    /\ nodes = EmptyStore
    /\ calls = EmptyBag
    /\ rev = IdleRev
    /\ col = IdleCol
    /\ mv = IdleMv
    /\ dlg = IdleDlg
    /\ closest = IdleClosest
    /\ iter = IdleIter
    /\ qo = IdleQo

NextRoot ==
    \/ WorkspaceChanged
    \/ createRootRoots
    \/ createRootChild
    \/ updateRootAssign

\* The navigator model under workspace-change events.
SpecRoot == InitRoot /\ [][NextRoot]_vars

\* The tree once updateRoot has completed for the root list rs.
createRootOf(rs) ==
    createRootValue(CallAt("assign", rs,
        [i \in 1..Len(rs) |-> createWorkspaceRoot(rs[i], WorkspaceNodeCreateRoot)]))

\* A workspace is open and its updateRoot has completed.
InitNav ==
    /\ wsRoots \in RootLists
    /\ root = createRootOf(wsRoots).id
    /\ nodes = StoreOf(createRootOf(wsRoots))
    /\ calls = EmptyBag
    /\ rev = IdleRev
    /\ col = IdleCol
    /\ mv = IdleMv
    /\ dlg = IdleDlg
    /\ closest = IdleClosest
    /\ iter = IdleIter
    /\ qo = IdleQo

NextNav ==
    \/ revealFileCall
    \/ revealFileEntry
    \/ revealFileLookup
    \/ revealFileParent
    \/ revealFileRelookup
    \/ revealFileExpand
    \/ expandNode
    \/ collapseNode
    \/ collectAffectedNodes
    \/ move
    \/ operationReturns

\* The navigator model in an open workspace: reveal, expand/collapse,
\* filesystem change events and moves, one operation at a time.
SpecNav == InitNav /\ [][NextNav]_vars

\* A suspended activation of revealFile resumes: the promise it awaits (a
\* node lookup, expandNode, the recursive call) has settled.
revealFileResumes ==
    \/ revealFileEntry
    \/ revealFileLookup
    \/ revealFileParent
    \/ revealFileRelookup
    \/ revealFileExpand

\* SpecNav where every awaited lookup and expandNode completes.
SpecNavFair == SpecNav /\ WF_vars(revealFileResumes)

InitClosest == InitNav

NextClosest ==
    \/ expandNode
    \/ collapseNode
    \/ getNodeClosestToRootByUriCall
    \/ closestOfCall
    \/ operationReturns

\* Lookups of the node closest to the root, between expansions and
\* collapses of the tree.
SpecClosest == InitClosest /\ [][NextClosest]_vars

\* The workspace of the single root /a is open, /a and /a/b expanded.
InitIter ==
    /\ wsRoots = <<UriA>>
    /\ root = createRootOf(wsRoots).id
    /\ nodes = ExpandStore(ExpandStore(StoreOf(createRootOf(wsRoots)),
                                       NodeIdOf(UriA, UriA)),
                           NodeIdOf(UriA, UriAB))
    /\ calls = EmptyBag
    /\ rev = IdleRev
    /\ col = IdleCol
    /\ mv = IdleMv
    /\ dlg = IdleDlg
    /\ closest = IdleClosest
    /\ iter = IdleIter
    /\ qo = IdleQo

NextIter ==
    \/ filteredNodesChanged
    \/ createIteratorCall
    \/ createBackwardIteratorCall

\* The navigator's iterators under changes of the search filter.
SpecIter == InitIter /\ [][NextIter]_vars

InitQuickOpen == InitRoot

NextQuickOpen ==
    \/ onStart
    \/ registerQuickOpenHandlers
    \/ onStartReturns

\* The quick-open contribution at application start.
SpecQuickOpen == InitQuickOpen /\ [][NextQuickOpen]_vars

InitDialog == InitNav

NextDialog ==
    \/ showOpenDialogCall
    \/ showOpenDialogStat
    \/ showOpenDialogRoots
    \/ showOpenDialogHome
    \/ showOpenDialogOpen
    \/ showOpenDialogClose
    \/ showOpenDialogSettled

\* The dialog bridge serving $showOpenDialog requests in an open workspace.
SpecDialog == InitDialog /\ [][NextDialog]_vars

(***************************************************************************)
(* Properties of updateRoot                                                *)
(***************************************************************************)
\* The root r and index ns show the root list rs: no root for an empty list,
\* else the WorkspaceNode with one WorkspaceRootNode per root, in order.
RootMatches(rs, r, ns) ==
    IF rs = <<>>
    THEN r = undefined /\ DOMAIN ns = {}
    ELSE /\ r = WorkspaceNodeId
         /\ r \in DOMAIN ns
         /\ ns[r].kind = "WorkspaceNode"
         /\ Len(ns[r].children) = Len(rs)
         /\ \A i \in 1..Len(rs) :
                LET k == ns[r].children[i]
                IN /\ k \in DOMAIN ns
                   /\ ns[k].uri = rs[i]
                   /\ ns[k].kind = "DirNode"
                   /\ ns[k].parent = r
         /\ \A i, j \in 1..Len(rs) :
                i # j => ns[r].children[i] # ns[r].children[j]

\* C1: whenever an updateRoot invocation completes (interleaved with others
\* or not), the root it has assigned shows the root list the provider gave
\* to this invocation: undefined for no roots, else one WorkspaceNode with
\* exactly one WorkspaceRootNode per root, in the provider's order.
C1_UpdateRootResult ==
    [][\A call \in InFlight :
          (call.pc = "assign" /\ calls' = calls (-) SetToBag({call}))
              => RootMatches(call.roots, root', nodes')]_vars

\* An updateRoot of three roots has completed with nothing else in flight.
C1_Witness ==
    /\ NoCallInFlight
    /\ Len(wsRoots) = 3
    /\ RootMatches(wsRoots, root, nodes)
    /\ Len(nodes[root].children) = 3

\* C2: once every triggered updateRoot has completed, the tree root shows the
\* workspace's current root list.
C2_RootFollowsWorkspace ==
    NoCallInFlight => RootMatches(wsRoots, root, nodes)

(***************************************************************************)
(* Properties of revealFile                                                *)
(***************************************************************************)
RECURSIVE AncestorsExpanded(_, _)
\* Every ancestor of node id, up to and including its workspace root node,
\* is mounted in store and expanded.
AncestorsExpanded(store, id) ==
    LET n == store[id]
    IN \/ n.parent = WorkspaceNodeId
       \/ /\ n.parent \in DOMAIN store
          /\ store[n.parent].expanded
          /\ AncestorsExpanded(store, n.parent)

\* Node id is visible: mounted, below expanded ancestors only, and expanded
\* itself when it is a directory.
Visible(store, id) ==
    /\ id \in DOMAIN store
    /\ AncestorsExpanded(store, id)
    /\ store[id].kind = "DirNode" => store[id].expanded

RevealDone == rev.state = "done"

\* C3: whenever revealFile returns a node, the node is mounted, every
\* ancestor up to its workspace root node is expanded and the node itself is
\* expanded if it is expandable.
C3_RevealedNodeVisible ==
    (RevealDone /\ rev.ret # undefined) => Visible(nodes, rev.ret)

RECURSIVE Depth(_, _)
\* The number of ancestors of node id in the tree.
Depth(store, id) ==
    IF id \notin DOMAIN store \/ store[id].parent = undefined THEN 0
    ELSE 1 + Depth(store, store[id].parent)

\* The parent of node id is the WorkspaceNode, or is mounted and expanded.
ParentMountedExpanded(store, id) ==
    \/ store[id].parent = WorkspaceNodeId
    \/ /\ store[id].parent \in DOMAIN store
       /\ store[store[id].parent].expanded

\* C4: within one revealFile call the expandNode calls go root-to-leaf: each
\* is on a node deeper than the one before, no node is expanded twice, and a
\* node is expanded only while its parent is mounted and expanded.
C4_ExpandRootToLeaf ==
    [][(rev.state = "running" /\ rev'.log # rev.log) =>
          LET id == rev'.log[Len(rev'.log)]
          IN /\ ParentMountedExpanded(nodes, id)
             /\ id \notin SeqRange(rev.log)
             /\ rev.log # <<>> =>
                    Depth(nodes, id) > Depth(nodes, rev.log[Len(rev.log)])]_vars

\* Path p is q or lies below q.
IsPrefix(q, p) == Len(q) <= Len(p) /\ SubSeq(p, 1, Len(q)) = q

\* The workspace roots the path p lies in (at or below the root).
RootsOf(p) == {r \in SeqRange(wsRoots) : IsPrefix(r.path, p)}

\* The proper ancestors of path p that lie at or below path q.
AncestorsWithin(q, p) ==
    {SubSeq(p, 1, n) : n \in Len(q)..(Len(p) - 1)}

\* The mounted nodes of store that stand for the URI uri.
NodesOf(store, uri) == {id \in DOMAIN store : store[id].uri = uri}

\* In store, under every workspace root that contains uri, every ancestor
\* directory of uri is mounted and expanded.
AncestorDirsExpanded(store, uri) ==
    /\ uri.scheme = "file"
    /\ RootsOf(uri.path) # {}
    /\ \A r \in RootsOf(uri.path) : \A q \in AncestorsWithin(r.path, uri.path) :
          \E id \in NodesOf(store, FileUri(q)) :
              store[id].wsroot = r /\ store[id].expanded

\* revealFile was a pure lookup: it returned the node of its URI with the
\* longest id (undefined if the URI has no node) and changed no node.
PureLookup ==
    /\ nodes = rev.pre
    /\ rev.log = <<>>
    /\ IF NodesOf(rev.pre, rev.target) = {} THEN rev.ret = undefined
       ELSE /\ rev.ret \in NodesOf(rev.pre, rev.target)
            /\ \A id \in NodesOf(rev.pre, rev.target) :
                  id # rev.ret => Len(id) < Len(rev.ret)

\* C5 as claimed: revealFile on a URI whose every ancestor directory is
\* expanded returns the matching node and expands nothing.
C5_Original ==
    (RevealDone /\ AncestorDirsExpanded(rev.pre, rev.target)) => PureLookup

\* C5: revealFile on a URI whose every ancestor directory is expanded, and
\* whose own node is not a collapsed directory, returns the matching node,
\* calls expandNode on no node and leaves every node as it was.  The call
\* ends in the state it started in and its result is fixed by that state, so
\* repeating it returns the same node with no expansion either.
C5_ExpandedPathIsPureLookup ==
    ( /\ RevealDone
      /\ AncestorDirsExpanded(rev.pre, rev.target)
      /\ \A id \in NodesOf(rev.pre, rev.target) :
            rev.pre[id].kind = "DirNode" => rev.pre[id].expanded )
        => PureLookup

\* revealFile of /a/b/f has returned its node under nested roots, all of its
\* ancestor directories having been expanded before the call.
C5_Witness ==
    /\ RevealDone
    /\ rev.target = FileUri(PathABF)
    /\ Len(wsRoots) >= 2
    /\ AncestorDirsExpanded(rev.pre, rev.target)
    /\ rev.ret # undefined
    /\ Len(rev.rets) >= 2

\* C6: for a file URI under no workspace root, revealFile and every
\* recursive call it makes, up to the filesystem root, return undefined, and
\* no node is expanded.
C6_OutsideRootsNotFound ==
    (RevealDone /\ rev.target.scheme = "file" /\ RootsOf(rev.target.path) = {})
        => /\ rev.ret = undefined
           /\ Len(rev.rets) = Len(rev.target.path) + 1
           /\ \A i \in 1..Len(rev.rets) : rev.rets[i] = undefined
           /\ rev.log = <<>>
           /\ nodes = rev.pre

\* revealFile of /c/h has returned while the workspace has roots, none of
\* which contains /c/h.
C6_Witness ==
    /\ RevealDone
    /\ rev.target = FileUri(PathCH)
    /\ wsRoots # <<>>
    /\ RootsOf(PathCH) = {}
    /\ Len(rev.rets) = Len(PathCH) + 1

(***************************************************************************)
(* Properties of collectAffectedNodes                                      *)
(***************************************************************************)
CollectDone == col.state = "done"

\* The change is a content update of a file that has a FileNode in the tree.
ContentUpdateOfFileNode(change) ==
    /\ change.type = "UPDATED"
    /\ \E id \in NodesOf(nodes, change.uri) : nodes[id].kind = "FileNode"

\* C7: an UPDATED change for a URI that has a mounted FileNode, under
\* whichever workspace root, makes collectAffectedNodes call accept no time.
C7_ContentUpdateAcceptsNothing ==
    (CollectDone /\ ContentUpdateOfFileNode(col.change)) => col.accepted = <<>>

\* C8: for a change that is not a content update of an existing FileNode,
\* accept is called exactly once for each mounted, expanded directory node
\* of the changed path's parent URI, and for no other node.
C8_ExpandedParentsAccepted ==
    (CollectDone /\ ~ContentUpdateOfFileNode(col.change)) =>
        LET parents == {id \in NodesOf(nodes, parent(col.change.uri)) :
                            nodes[id].kind = "DirNode" /\ nodes[id].expanded}
        IN /\ SeqRange(col.accepted) = parents
           /\ Len(col.accepted) = Cardinality(parents)

\* An ADDED change has completed whose parent directory has two nodes, one
\* expanded and one collapsed: accept was called once, for the expanded one.
C8_Witness ==
    /\ CollectDone
    /\ col.change.type = "ADDED"
    /\ Len(col.accepted) = 1
    /\ nodes[col.accepted[1]].expanded
    /\ \E id \in NodesOf(nodes, parent(col.change.uri)) : ~nodes[id].expanded

(***************************************************************************)
(* Properties of move                                                      *)
(***************************************************************************)
\* The workspace root nodes: the children of the tree root.
WorkspaceRootNodes == IF root = undefined THEN {} ELSE SeqRange(nodes[root].children)

\* C9: move(source, target) with source a workspace root node (which has a
\* parent, the WorkspaceNode) never invokes the generic move and leaves the
\* tree as it is, whatever the target; with any other source it invokes the
\* generic move exactly once.
C9_MoveOfRootIsNoOp ==
    [][(mv.state = "idle" /\ mv'.state = "done") =>
          IF mv'.source \in WorkspaceRootNodes
          THEN mv'.delegated = 0 /\ nodes' = nodes /\ root' = root
          ELSE mv'.delegated = 1]_vars

\* A move of a workspace root node onto another directory has completed.
C9_Witness ==
    /\ mv.state = "done"
    /\ mv.source \in WorkspaceRootNodes
    /\ mv.target # mv.source
    /\ nodes[mv.target].kind = "DirNode"
    /\ mv.delegated = 0

(***************************************************************************)
(* Properties of $showOpenDialog                                           *)
(***************************************************************************)
DialogSettled == dlg.pc \in {"resolved", "rejected"}

\* C10: when no root directory can be resolved, $showOpenDialog still
\* resolves, with undefined, the error having been logged.
C10_NoRootStillResolves ==
    (DialogSettled /\ dlg.rootStat = NoStat) =>
        /\ dlg.pc = "resolved"
        /\ ~dlg.result.defined
        /\ dlg.logged # <<>>

\* The dialog has been created and navigated to its root node.
DialogShown == dlg.pc \in {"open", "resolved"}

\* The stat of the caller's defaultUri, NoStat if none was given or the
\* filesystem has no such entry.
DefaultStat ==
    IF /\ dlg.options.defaultUri # NoUri
       /\ dlg.options.defaultUri.path \in DirPaths \cup FilePaths
    THEN dlg.options.defaultUri ELSE NoStat

\* C11: the dialog is navigated to the stat of defaultUri when that is given
\* and resolves, otherwise to the first workspace root, otherwise to the
\* user's home; and a source is consulted only when every source before it
\* yielded nothing (defaultUri is consulted only when it is given).
C11_RootPrecedence ==
    DialogShown =>
        /\ dlg.navigatedTo =
              IF DefaultStat # NoStat THEN DefaultStat
              ELSE IF wsRoots # <<>> THEN wsRoots[1]
              ELSE HomeStat
        /\ dlg.consulted =
              (IF dlg.options.defaultUri # NoUri THEN <<"defaultUri">> ELSE <<>>)
                \o (IF DefaultStat = NoStat THEN <<"roots">> ELSE <<>>)
                \o (IF DefaultStat = NoStat /\ wsRoots = <<>> THEN <<"home">> ELSE <<>>)

\* A dialog is shown for a defaultUri that resolves, in a workspace whose
\* first root is another directory.
C11_Witness ==
    /\ dlg.pc = "open"
    /\ DefaultStat = UriA
    /\ wsRoots # <<>>
    /\ wsRoots[1] # UriA
    /\ dlg.navigatedTo = UriA

\* The flags as the title derivation reads them.
SelectFiles == dlg.options.canSelectFiles # "false"

SelectFolders == dlg.options.canSelectFolders # "false"

SelectMany == dlg.options.canSelectMany = "true"

\* The statement of C12 as written: the "(s)" suffix follows the title
\* whenever canSelectMany is requested, "Open" included.
C12_Original ==
    DialogShown =>
        dlg.title =
            (IF SelectFiles /\ SelectFolders THEN "Open"
             ELSE IF SelectFiles THEN "Open File" ELSE "Open Folder")
                \o (IF SelectMany THEN "(s)" ELSE "")

\* C12: the title depends on the flags only: "Open" when files and folders
\* may both be selected (each defaulting to true when not a boolean),
\* whether or not canSelectMany is requested; otherwise "Open File" when
\* files may be selected and "Open Folder" when they may not, each followed
\* by "(s)" exactly when canSelectMany is requested.
C12_DialogTitle ==
    DialogShown =>
        /\ (SelectFiles /\ SelectFolders) => dlg.title = "Open"
        /\ (SelectFiles /\ ~SelectFolders /\ SelectMany) => dlg.title = "Open File(s)"
        /\ (SelectFiles /\ ~SelectFolders /\ ~SelectMany) => dlg.title = "Open File"
        /\ (~SelectFiles /\ SelectMany) => dlg.title = "Open Folder(s)"
        /\ (~SelectFiles /\ ~SelectMany) => dlg.title = "Open Folder"

\* A dialog is shown for a multiple selection of files and folders, the
\* flags for files and folders left to their defaults: its title is "Open".
C12_Witness ==
    /\ dlg.pc = "open"
    /\ dlg.options.canSelectFiles = "undefined"
    /\ dlg.options.canSelectFolders = "undefined"
    /\ dlg.options.canSelectMany = "true"
    /\ dlg.title = "Open"

(***************************************************************************)
(* More properties of revealFile                                           *)
(***************************************************************************)
\* C13: revealFile on a URI whose scheme is not 'file' returns undefined
\* without a recursive call, without looking up any node and without
\* changing the tree.
C13_NonFileSchemeNotFound ==
    (RevealDone /\ rev.target.scheme # "file") =>
        /\ rev.ret = undefined
        /\ rev.rets = <<undefined>>
        /\ rev.lookups = 0
        /\ rev.log = <<>>
        /\ nodes = rev.pre

\* revealFile has returned for a non-file URI whose path has a mounted node
\* in the tree.
C13_Witness ==
    /\ RevealDone
    /\ rev.target.scheme # "file"
    /\ NodesOf(nodes, FileUri(rev.target.path)) # {}

(***************************************************************************)
(* Properties of getNodeClosestToRootByUri                                 *)
(***************************************************************************)
\* The position of the workspace root of the mounted node id in the
\* provider's list.
RootIndex(id) == CHOOSE i \in 1..Len(wsRoots) : wsRoots[i] = nodes[id].wsroot

\* C14: getNodeClosestToRootByUri(uri) chooses among the mounted nodes of
\* uri, one per workspace root in provider order; it returns undefined when
\* there is none, and otherwise a node whose id is of maximal length, the
\* earliest such node in provider order.
C14_ClosestIsLongestEarliest ==
    closest.state = "done" =>
        LET found == closest.found
            result == closest.result
        IN /\ closest.uri # NoUri =>
                /\ {found[i] : i \in 1..Len(found)} = NodesOf(nodes, closest.uri)
                /\ \A i, j \in 1..Len(found) :
                      i < j => RootIndex(found[i]) < RootIndex(found[j])
           /\ result = undefined <=> found = <<>>
           /\ found # <<>> =>
                \E i \in 1..Len(found) :
                    /\ result = found[i]
                    /\ \A j \in 1..Len(found) : Len(found[j]) <= Len(found[i])
                    /\ \A j \in 1..(i - 1) : Len(found[j]) < Len(found[i])

\* A lookup met three nodes, the second and the third with ids of the same
\* length and longer than the first: it returned the second.
C14_Witness ==
    /\ closest.state = "done"
    /\ Len(closest.found) = 3
    /\ Len(closest.found[1]) < Len(closest.found[2])
    /\ Len(closest.found[2]) = Len(closest.found[3])
    /\ closest.result = closest.found[2]

(***************************************************************************)
(* Termination of revealFile                                               *)
(***************************************************************************)
\* The activations of revealFile begun for the current call: those that have
\* returned and those on the stack.
RevealCalls == Len(rev.rets) + Len(rev.stack)

\* The activations on the stack are for the target URI, its parent, its
\* grandparent, and so on: one path segment less per recursive call.
DepthDecreases ==
    \A i \in 1..Len(rev.stack) :
        rev.stack[i].uri.path =
            SubSeq(rev.target.path, 1, Len(rev.target.path) - (i - 1))

\* C15: a revealFile call for a URI of path depth d makes at most d + 1
\* nested revealFile calls, each on a path one segment shorter than its
\* caller's, and, every awaited lookup and expandNode completing, it
\* terminates.
C15_RevealTerminates ==
    /\ [](rev.state # "idle" =>
            /\ RevealCalls <= Len(rev.target.path) + 1
            /\ DepthDecreases)
    /\ (rev.state = "running") ~> (rev.state = "done")

\* revealFile has returned for a URI of depth 3 after 4 nested calls, the
\* last of them on the filesystem root.
C15_Witness ==
    /\ RevealDone
    /\ Len(rev.target.path) = 3
    /\ Len(rev.rets) = 4

(***************************************************************************)
(* Properties of the iterators                                             *)
(***************************************************************************)
\* The node after x in the list f, the first after the last.
Succ(f, x) == f[(indexOf(f, x) % Len(f)) + 1]

\* The node before x in the list f, the last before the first.
Pred(f, x) == f[((indexOf(f, x) + Len(f) - 2) % Len(f)) + 1]

\* C16: createIterator and createBackwardIterator return undefined for an
\* undefined anchor and, the filter active, for an anchor outside the
\* filtered nodes; for an anchor among the filtered nodes they yield the
\* anchor and then, without end, the next filtered node (forward) or the
\* previous one (backward), wrapping around, and leave the filtered list as
\* it was; with no filter they delegate to the tree's own iterator.
C16_FilteredIteration ==
    iter.state = "done" =>
        LET f == iter.before
            it == iter.iterator
            inFilter == \E i \in 1..Len(f) : f[i] = iter.anchor
        IN /\ iter.filteredNodes = f
           /\ iter.anchor = undefined => it = NoIterator
           /\ (iter.anchor # undefined /\ f = <<>>) =>
                it = superIterator(IF iter.backward THEN "treeBackward" ELSE "tree",
                                   iter.anchor)
           /\ (iter.anchor # undefined /\ f # <<>> /\ ~inFilter) => it = NoIterator
           /\ (iter.anchor # undefined /\ inFilter) =>
                /\ it.kind = "cycle"
                /\ Yield(it, 1) = iter.anchor
                /\ \A n \in 1..(2 * Len(f)) :
                      Yield(it, n + 1) = IF iter.backward THEN Pred(f, Yield(it, n))
                                         ELSE Succ(f, Yield(it, n))

\* A backward iterator was created on the second of three filtered nodes: it
\* yields the second, the first, the third, and the second again.
C16_Witness ==
    /\ iter.state = "done"
    /\ iter.backward
    /\ Len(iter.before) = 3
    /\ iter.anchor = iter.before[2]
    /\ Yield(iter.iterator, 2) = iter.before[1]
    /\ Yield(iter.iterator, 3) = iter.before[3]
    /\ Yield(iter.iterator, 4) = iter.before[2]

(***************************************************************************)
(* Properties of onStart                                                   *)
(***************************************************************************)
\* C17: at every moment of onStart the hooks invoked are those of a prefix
\* of the provider's contributions, in that order, each once and with the
\* one registry; no hook but the last invoked has failed; onStart returns
\* only when every hook was invoked and none failed, and it throws exactly
\* at the first failing hook, the contributions after it never invoked nor
\* registered.
C17_InvokedIsPrefix ==
    qo.state # "idle" =>
        LET cs == qo.contributions
            n == Len(qo.invoked)
        IN /\ n <= Len(cs)
           /\ \A i \in 1..n :
                /\ qo.invoked[i].contrib = cs[i].name
                /\ qo.invoked[i].registry = quickOpenHandlerRegistry
           /\ \A i \in 1..(n - 1) : ~cs[i].fails
           /\ \A i \in 1..Len(qo.handlers) :
                qo.handlers[i] = cs[i].name /\ ~cs[i].fails
           /\ \A i \in 1..n : ~cs[i].fails => i <= Len(qo.handlers)
           /\ qo.state = "returned" =>
                n = Len(cs) /\ \A i \in 1..Len(cs) : ~cs[i].fails
           /\ qo.state = "thrown" => n >= 1 /\ cs[n].fails
           /\ (n >= 1 /\ cs[n].fails) => qo.state = "thrown"

\* onStart has thrown at the second of three contributions: the first is
\* registered, the third was never invoked.
C17_Witness ==
    /\ qo.state = "thrown"
    /\ Len(qo.contributions) = 3
    /\ Len(qo.invoked) = 2
    /\ Len(qo.handlers) = 1

====
